---- MODULE Spec2Model ----
(***************************************************************************)
(* csv2html.py: read a CSV file, compute per-key pass percentages for the  *)
(* requested data columns, and write an HTML report with one Google chart  *)
(* per data column.                                                        *)
(*                                                                         *)
(* Strings are modelled as sequences of character codes so that            *)
(* str.lower(), str.replace() and the lexicographic order of the group     *)
(* keys are computed the way Python computes them.                         *)
(***************************************************************************)
EXTENDS Integers, Sequences, FiniteSets, TLC

VARIABLES
    pc,            \* position in main() / create_google_charts_html()
    fs_csv,        \* the input file on disk
    key_column,    \* args.key_column
    data_columns,  \* args.data_columns
    df,            \* the DataFrame returned by pd.read_csv
    i,             \* number of data columns already aggregated
    summary_df,    \* summary_df of the last aggregated column
    chart_data,    \* dict: column name -> data_list
    html_content,  \* the generated document
    fs_output,     \* the output file on disk
    stderr,        \* diagnostic printed to standard error
    exit_code      \* process exit status; -1 while running

vars == <<pc, fs_csv, key_column, data_columns, df, i, summary_df, chart_data,
          html_content, fs_output, stderr, exit_code>>

----------------------------------------------------------------------------
(* Bounds *)

MaxRows == 3

MaxDataCols == 2

----------------------------------------------------------------------------
(* Strings used by the inputs, as sequences of character codes *)

s_k == <<107>>                              \* "k"
s_a_sp_b == <<97, 32, 98>>                  \* "a b"
s_a_us_b == <<97, 95, 98>>                  \* "a_b"
s_A == <<65>>                               \* "A"
s_B == <<66>>                               \* "B"
s_empty == <<>>                             \* ""
s_pass == <<112, 97, 115, 115>>             \* "pass"
s_Pass == <<80, 97, 115, 115>>              \* "Pass"
s_PASS == <<80, 65, 83, 83>>                \* "PASS"
s_fail == <<102, 97, 105, 108>>             \* "fail"
s_Fail == <<70, 97, 105, 108>>              \* "Fail"
s_NA == <<78, 47, 65>>                      \* "N/A"
s_sp_pass_sp == <<32, 112, 97, 115, 115, 32>>   \* " pass "
s_passed == <<112, 97, 115, 115, 101, 100>>     \* "passed"

(* The rows the sample CSV files are made of, as (k, "a b", "a_b") fields. *)
RowUniverse ==
    { <<s_A, s_pass, s_pass>>,
      <<s_A, s_Fail, s_empty>>,
      <<s_B, s_PASS, s_fail>>,
      <<s_B, s_empty, s_pass>>,
      <<s_empty, s_Pass, s_Pass>>,
      <<s_A, s_sp_pass_sp, s_passed>>,
      <<s_B, s_NA, s_NA>> }

Headers == { <<s_k, s_a_sp_b, s_a_us_b>>, <<s_k, s_a_sp_b>>, <<s_k>> }

KeyNames == { s_k, s_a_us_b }

DataNames == { s_a_sp_b, s_a_us_b }

RECURSIVE SeqsUpTo(_, _)
SeqsUpTo(S, n) ==
    IF n = 0 THEN { <<>> }
    ELSE LET shorter == SeqsUpTo(S, n - 1)
         IN  shorter \cup { Append(q, x) : q \in { p \in shorter : Len(p) = n - 1 }, x \in S }

CsvFiles ==
    UNION { { [status |-> "ok", header |-> h, rows |-> rs] :
                rs \in SeqsUpTo({ SubSeq(r, 1, Len(h)) : r \in RowUniverse }, MaxRows) } :
            h \in Headers }

NoFile == [status |-> "missing", header |-> <<>>, rows |-> <<>>]     \* path does not exist

BadFile == [status |-> "malformed", header |-> <<>>, rows |-> <<>>]  \* content pandas cannot parse

----------------------------------------------------------------------------
(* Python / pandas functions *)

\* str.lower() on ASCII text
Lower(s) == [j \in DOMAIN s |-> IF s[j] >= 65 /\ s[j] <= 90 THEN s[j] + 32 ELSE s[j]]

\* col.replace(' ', '_')
Replace(s) == [j \in DOMAIN s |-> IF s[j] = 32 THEN 95 ELSE s[j]]

\* Python's str ordering: lexicographic by code point
LexLess(a, b) ==
    \E p \in 1..Len(b) :
        /\ \A j \in 1..(p - 1) : j <= Len(a) /\ a[j] = b[j]
        /\ (p > Len(a) \/ a[p] < b[p])

\* A missing value (NaN) in a DataFrame cell; no text has a negative code.
NaNCell == <<-1>>

\* pandas' default na_values among the texts used here
NaValues == { s_empty, s_NA }

ParseCell(text) == IF text \in NaValues THEN NaNCell ELSE text

\* pd.read_csv on a well-formed file
read_csv(file) ==
    [columns |-> file.header,
     rows |-> [r \in DOMAIN file.rows |->
                 [c \in DOMAIN file.rows[r] |-> ParseCell(file.rows[r][c])]]]

EmptyFrame == [columns |-> <<>>, rows |-> <<>>]

HasColumn(frame, col) == \E c \in DOMAIN frame.columns : frame.columns[c] = col

ColIndex(frame, col) == CHOOSE c \in DOMAIN frame.columns : frame.columns[c] = col

Range(q) == { q[j] : j \in DOMAIN q }

RECURSIVE SortKeys(_)
SortKeys(S) ==
    IF S = {} THEN <<>>
    ELSE LET m == CHOOSE x \in S : \A y \in S \ {x} : LexLess(x, y)
         IN  <<m>> \o SortKeys(S \ {m})

(* float64 values, kept exact: a reduced fraction, NaN or inf *)
RECURSIVE GCD(_, _)
GCD(a, b) == IF b = 0 THEN a ELSE GCD(b, a % b)

Fin(n, d) == LET g == GCD(n, d) IN [kind |-> "fin", num |-> n \div g, den |-> d \div g]

NaN == [kind |-> "nan", num |-> 0, den |-> 1]

Inf == [kind |-> "inf", num |-> 0, den |-> 1]

FDiv(a, b) ==
    IF a.kind = "nan" \/ b.kind = "nan" THEN NaN
    ELSE IF b.num = 0 THEN (IF a.num = 0 THEN NaN ELSE Inf)
    ELSE IF a.kind = "inf" THEN Inf
    ELSE Fin(a.num * b.den, a.den * b.num)

FMul(a, n) == IF a.kind = "fin" THEN Fin(a.num * n, a.den) ELSE a

fillna(x) == IF x.kind = "nan" THEN Fin(0, 1) ELSE x

\* first-occurrence order of the distinct non-null keys (sort=False)
RECURSIVE FirstSeen(_, _, _)
FirstSeen(rows, k, seen) ==
    IF rows = <<>> THEN <<>>
    ELSE LET key == Head(rows)[k]
         IN  IF key = NaNCell \/ key \in seen
             THEN FirstSeen(Tail(rows), k, seen)
             ELSE <<key>> \o FirstSeen(Tail(rows), k, seen \cup {key})

GroupKeysUnsorted(rows, k) == FirstSeen(rows, k, {})

\* dropna=False: the missing key forms a group too
GroupKeysKeepNa(rows, k) == SortKeys({ rows[r][k] : r \in DOMAIN rows })

\* the group keys of df.groupby(key): sort=True, dropna=True
GroupKeys(rows, k) == SortKeys({ rows[r][k] : r \in DOMAIN rows } \ {NaNCell})

\* Series.size of one group: every row of the group
CountAll(rows, k, c, key) ==
    Cardinality({ r \in DOMAIN rows : rows[r][k] = key })

\* Series.count() of one group: the non-null cells of column c
CountNonNull(rows, k, c, key) ==
    Cardinality({ r \in DOMAIN rows : rows[r][k] = key /\ rows[r][c] # NaNCell })

\* grouping only the rows whose cell in column c is not null
GroupByCountObserved(rows, k, c) ==
    LET seen == SelectSeq(rows, LAMBDA row : row[c] # NaNCell)
        keys == GroupKeys(seen, k)
    IN  [g \in DOMAIN keys |-> [key |-> keys[g], val |-> CountNonNull(seen, k, c, keys[g])]]

\* df.groupby(key_column)[col].count()
GroupByCount(rows, k, c) ==
    LET keys == GroupKeys(rows, k)
    IN  [g \in DOMAIN keys |-> [key |-> keys[g], val |-> CountNonNull(rows, k, c, keys[g])]]

\* df[col].str raises AttributeError unless the column holds strings; a
\* column read_csv found entirely empty is float64.
StrAccessorOk(rows, c) == rows = <<>> \/ \E r \in DOMAIN rows : rows[r][c] # NaNCell

\* df[col] == 'pass', for one cell
IsPassCaseSensitive(cell) == cell = s_pass

\* df[col].str.lower() == 'pass', for one cell
IsPass(cell) == cell # NaNCell /\ Lower(cell) = s_pass

\* df[df[col].str.lower() == 'pass']
PassRows(rows, c) == SelectSeq(rows, LAMBDA row : IsPass(row[c]))

Index(series) == [g \in DOMAIN series |-> series[g].key]

\* the index pandas gives a DataFrame built from two Series
UnionIndex(a, b) == IF a = b THEN a ELSE SortKeys(Range(a) \cup Range(b))

\* the value a Series contributes at a key of the union index
Aligned(series, key) ==
    IF \E g \in DOMAIN series : series[g].key = key
    THEN Fin(series[CHOOSE g \in DOMAIN series : series[g].key = key].val, 1)
    ELSE NaN

\* passes / total * 100, without the guard
PercentageNoGuard(passes, total) == FMul(FDiv(passes, total), 100)

\* (passes / total * 100).fillna(0)
Percentage(passes, total) == fillna(FMul(FDiv(passes, total), 100))

\* summary_df after lines 25 and 28
Summary(total, passes) ==
    LET idx == UnionIndex(Index(total), Index(passes))
    IN  [g \in DOMAIN idx |->
           LET t == fillna(Aligned(total, idx[g]))
               p == fillna(Aligned(passes, idx[g]))
           IN  [key |-> idx[g], total |-> t, passes |-> p,
                percentage |-> Percentage(p, t)]]

\* summary_df of one data column
Aggregate(frame, key, col) ==
    LET k == ColIndex(frame, key)
        c == ColIndex(frame, col)
    IN  Summary(GroupByCount(frame.rows, k, c),
                GroupByCount(PassRows(frame.rows, c), k, c))

\* data_list: the header row, then [key, percentage] per group
DataList(key, summary) ==
    [head |-> <<key, "Pass Percentage">>,
     rows |-> [g \in DOMAIN summary |-> <<summary[g].key, summary[g].percentage>>]]

\* chart_data[col] = data_list
DictSet(dict, col, value) ==
    [c \in DOMAIN dict \cup {col} |-> IF c = col THEN value ELSE dict[c]]

\* f"chart_div_{i}"
ChartId(n) == <<"chart_div_", n>>

\* f"draw_{col.replace(' ', '_')}_Chart"
DrawName(col) == <<"draw_", Replace(col), "_Chart">>

\* the container id counted from 1 while the divs count from 0
DirectiveOffByOne(n, col, key, dict) ==
    [callback |-> DrawName(col),
     function |-> DrawName(col),
     data |-> dict[col],
     title |-> <<"Pass Percentage for ", col>>,
     hAxis |-> <<0, 100>>,
     vAxis |-> key,
     bars |-> "horizontal",
     element |-> ChartId(n + 1)]

\* one setOnLoadCallback + drawing function, lines 54-78
Directive(n, col, key, dict) ==
    [callback |-> DrawName(col),
     function |-> DrawName(col),
     data |-> dict[col],
     title |-> <<"Pass Percentage for ", col>>,
     hAxis |-> <<0, 100>>,
     vAxis |-> key,
     bars |-> "horizontal",
     element |-> ChartId(n)]

\* the document built by lines 38-110; enumerate() counts from 0
Html(cols, key, dict) ==
    [directives |-> [n \in DOMAIN cols |-> Directive(n - 1, cols[n], key, dict)],
     divs |-> [n \in DOMAIN cols |-> ChartId(n - 1)]]

EmptyDoc == [directives |-> <<>>, divs |-> <<>>]

NoDiag == [error |-> "", column |-> <<>>, available |-> <<>>]

Diag(e, col, avail) == [error |-> e, column |-> col, available |-> avail]

----------------------------------------------------------------------------
(* The run *)

Init ==
    /\ pc = "read_csv"
    /\ fs_csv \in CsvFiles \cup {NoFile, BadFile}
    /\ key_column \in KeyNames
    /\ data_columns \in SeqsUpTo(DataNames, MaxDataCols) \ { <<>> }
    /\ df = EmptyFrame
    /\ i = 0
    /\ summary_df = <<>>
    /\ chart_data = <<>>
    /\ html_content = EmptyDoc
    /\ fs_output \in {"absent", "stale"}
    /\ stderr = NoDiag
    /\ exit_code = -1

Exit(diag) ==
    /\ pc' = "exit"
    /\ exit_code' = 1
    /\ stderr' = diag

\* main, lines 136-143
ReadCsv ==
    /\ pc = "read_csv"
    /\ \/ /\ fs_csv.status = "missing"
          /\ Exit(Diag("FileNotFoundError", <<>>, <<>>))
          /\ UNCHANGED df
       \/ /\ fs_csv.status = "malformed"
          /\ Exit(Diag("ParseError", <<>>, <<>>))
          /\ UNCHANGED df
       \/ /\ fs_csv.status = "ok"
          /\ df' = read_csv(fs_csv)
          /\ pc' = "validate"
          /\ UNCHANGED <<exit_code, stderr>>
    /\ UNCHANGED <<fs_csv, key_column, data_columns, i, summary_df, chart_data,
                   html_content, fs_output>>

\* required_columns = [args.key_column] + args.data_columns
RequiredColumns == <<key_column>> \o data_columns

\* checking the data columns before the key column
FirstMissingDataFirst(required, frame) ==
    required[CHOOSE n \in DOMAIN required :
                /\ ~HasColumn(frame, required[n])
                /\ \A m \in (n + 1)..Len(required) : HasColumn(frame, required[m])]

\* the first column the loop of lines 146-150 does not find
FirstMissing(required, frame) ==
    required[CHOOSE n \in DOMAIN required :
                /\ ~HasColumn(frame, required[n])
                /\ \A m \in 1..(n - 1) : HasColumn(frame, required[m])]

\* main, lines 145-150
ValidateColumns ==
    /\ pc = "validate"
    /\ \/ /\ \E n \in DOMAIN RequiredColumns : ~HasColumn(df, RequiredColumns[n])
          /\ Exit(Diag("MissingColumn", FirstMissing(RequiredColumns, df), df.columns))
       \/ /\ \A n \in DOMAIN RequiredColumns : HasColumn(df, RequiredColumns[n])
          /\ pc' = "aggregate"
          /\ UNCHANGED <<exit_code, stderr>>
    /\ UNCHANGED <<fs_csv, key_column, data_columns, df, i, summary_df, chart_data,
                   html_content, fs_output>>

\* an iteration that also writes the document built so far
AggregateColumnWriting ==
    /\ pc = "aggregate"
    /\ i < Len(data_columns)
    /\ LET col == data_columns[i + 1]
       IN  \/ /\ ~StrAccessorOk(df.rows, ColIndex(df, col))
              /\ Exit(Diag("AttributeError", col, <<>>))
              /\ UNCHANGED <<i, summary_df, chart_data, fs_output>>
           \/ /\ StrAccessorOk(df.rows, ColIndex(df, col))
              /\ summary_df' = Aggregate(df, key_column, col)
              /\ chart_data' = DictSet(chart_data, col, DataList(key_column, summary_df'))
              /\ i' = i + 1
              /\ fs_output' = "report"
              /\ UNCHANGED <<pc, exit_code, stderr>>
    /\ UNCHANGED <<fs_csv, key_column, data_columns, df, html_content>>

\* one iteration of the loop of lines 18-34
AggregateColumn ==
    /\ pc = "aggregate"
    /\ i < Len(data_columns)
    /\ LET col == data_columns[i + 1]
       IN  \/ /\ ~StrAccessorOk(df.rows, ColIndex(df, col))
              /\ Exit(Diag("AttributeError", col, <<>>))
              /\ UNCHANGED <<i, summary_df, chart_data>>
           \/ /\ StrAccessorOk(df.rows, ColIndex(df, col))
              /\ summary_df' = Aggregate(df, key_column, col)
              /\ chart_data' = DictSet(chart_data, col, DataList(key_column, summary_df'))
              /\ i' = i + 1
              /\ UNCHANGED <<pc, exit_code, stderr>>
    /\ UNCHANGED <<fs_csv, key_column, data_columns, df, html_content, fs_output>>

\* lines 38-110
GenerateHtml ==
    /\ pc = "aggregate"
    /\ i = Len(data_columns)
    /\ html_content' = Html(data_columns, key_column, chart_data)
    /\ pc' = "write"
    /\ UNCHANGED <<fs_csv, key_column, data_columns, df, i, summary_df, chart_data,
                   fs_output, stderr, exit_code>>

\* lines 113-119; open() fails when the path cannot be opened for writing
WriteFile ==
    /\ pc = "write"
    /\ \/ /\ fs_output' = "report"
          /\ pc' = "done"
          /\ exit_code' = 0
          /\ UNCHANGED stderr
       \/ /\ Exit(Diag("IOError", <<>>, <<>>))
          /\ UNCHANGED fs_output
    /\ UNCHANGED <<fs_csv, key_column, data_columns, df, i, summary_df, chart_data,
                   html_content>>

Next == ReadCsv \/ ValidateColumns \/ AggregateColumn \/ GenerateHtml \/ WriteFile

Spec == Init /\ [][Next]_vars

----------------------------------------------------------------------------
(* The input as written in the CSV file, for stating the properties *)

HeaderCols == Range(fs_csv.header)

Field(r, name) ==
    fs_csv.rows[r][CHOOSE c \in DOMAIN fs_csv.header : fs_csv.header[c] = name]

Blank(text) == text \in { s_empty, s_NA }

RowsWithKey(key) == { r \in DOMAIN fs_csv.rows : Field(r, key_column) = key }

KeyTexts == { Field(r, key_column) : r \in DOMAIN fs_csv.rows }

FirstRow(key) ==
    CHOOSE r \in RowsWithKey(key) : \A q \in RowsWithKey(key) : r <= q

\* the data column summary_df was computed for
LastCol == data_columns[i]

Keys(dataset) == { dataset.rows[g][1] : g \in DOMAIN dataset.rows }

----------------------------------------------------------------------------
(* Properties *)

\* C1: for every group of an aggregated data column the emitted percentage
\* is passes / total * 100 when total > 0 and 0 when total = 0; passes <=
\* total, 0 <= percentage <= 100, and no NaN or inf reaches a dataset.
C1_PercentageFormula ==
    /\ i >= 1 =>
         \A g \in DOMAIN summary_df :
            LET s == summary_df[g]
            IN  /\ s.total.kind = "fin" /\ s.total.den = 1
                /\ s.passes.kind = "fin" /\ s.passes.den = 1
                /\ s.percentage.kind = "fin"
                /\ s.passes.num <= s.total.num
                /\ IF s.total.num > 0
                   THEN s.percentage.num * s.total.num
                          = s.passes.num * 100 * s.percentage.den
                   ELSE s.percentage.num = 0
                /\ chart_data[LastCol].rows[g] = <<s.key, s.percentage>>
    /\ \A col \in DOMAIN chart_data :
         \A g \in DOMAIN chart_data[col].rows :
            LET pct == chart_data[col].rows[g][2]
            IN  /\ pct.kind = "fin"
                /\ 0 <= pct.num
                /\ pct.num <= 100 * pct.den

\* a finished run with one group of total 0 (percentage 0) and one at 50
C1_Witness ==
    /\ pc = "done"
    /\ \E g \in DOMAIN summary_df :
         summary_df[g].total.num = 0 /\ summary_df[g].percentage = Fin(0, 1)
    /\ \E g \in DOMAIN summary_df :
         summary_df[g].total.num = 2 /\ summary_df[g].percentage = Fin(50, 1)

\* C2 (as claimed): a group's total is the count of all rows of the table
\* having that key value, rows with a blank data cell included.
C2_TotalCountsAllRows ==
    i >= 1 =>
      \A g \in DOMAIN summary_df :
         summary_df[g].total.num = Cardinality(RowsWithKey(summary_df[g].key))

\* C2 (amended): a group's total is the count of the rows having that key
\* value whose data cell is not blank; blank cells are left out of the
\* denominator.
C2_TotalCountsNonBlank ==
    i >= 1 =>
      \A g \in DOMAIN summary_df :
         summary_df[g].total.num
           = Cardinality({ r \in RowsWithKey(summary_df[g].key) : ~Blank(Field(r, LastCol)) })

\* a group with a blank data cell whose percentage is still 100
C2_Witness ==
    /\ i >= 1
    /\ \E g \in DOMAIN summary_df :
         /\ \E r \in RowsWithKey(summary_df[g].key) : Blank(Field(r, LastCol))
         /\ summary_df[g].total.num >= 1
         /\ summary_df[g].percentage = Fin(100, 1)

\* C3 (as claimed): the rows of each dataset are in the order in which
\* their key values first occur in the table.
C3_FirstOccurrenceOrder ==
    \A col \in DOMAIN chart_data :
       \A g, h \in DOMAIN chart_data[col].rows :
          g < h => FirstRow(chart_data[col].rows[g][1]) < FirstRow(chart_data[col].rows[h][1])

\* C3 (amended): the rows of each dataset are in ascending order of their
\* key values, whatever the order of first occurrence.
C3_SortedOrder ==
    \A col \in DOMAIN chart_data :
       \A g, h \in DOMAIN chart_data[col].rows :
          g < h => LexLess(chart_data[col].rows[g][1], chart_data[col].rows[h][1])

\* a finished run whose table has the larger key first
C3_Witness ==
    /\ pc = "done"
    /\ \E col \in DOMAIN chart_data :
         \E g, h \in DOMAIN chart_data[col].rows :
            /\ g < h
            /\ FirstRow(chart_data[col].rows[g][1]) > FirstRow(chart_data[col].rows[h][1])

\* C4 (as claimed): the number of data rows of each dataset is the number
\* of distinct values of the key column among all rows, a blank key cell
\* being a value, and each of them appears in exactly one row.
C4_RowPerKeyValue ==
    \A col \in DOMAIN chart_data :
       /\ Len(chart_data[col].rows) = Cardinality(KeyTexts)
       /\ \A key \in KeyTexts :
            Cardinality({ g \in DOMAIN chart_data[col].rows :
                            chart_data[col].rows[g][1] = key }) = 1

\* C4 (amended): the number of data rows of each dataset is the number of
\* distinct non-blank values of the key column, each appears in exactly one
\* row, and rows with a blank key cell are in no group.
C4_RowPerNonBlankKey ==
    \A col \in DOMAIN chart_data :
       /\ Len(chart_data[col].rows) = Cardinality({ key \in KeyTexts : ~Blank(key) })
       /\ \A key \in KeyTexts :
            Cardinality({ g \in DOMAIN chart_data[col].rows :
                            chart_data[col].rows[g][1] = key })
              = IF Blank(key) THEN 0 ELSE 1

\* a finished run over a table with a blank key cell and two other keys
C4_Witness ==
    /\ pc = "done"
    /\ \E key \in KeyTexts : Blank(key)
    /\ \E col \in DOMAIN chart_data : Len(chart_data[col].rows) = 2

\* C5 (as claimed): a dataset has a row for a key value only if some table
\* row with that key has a non-blank cell in the data column.
C5_OnlyObservedKeys ==
    \A col \in DOMAIN chart_data :
       \A key \in Keys(chart_data[col]) :
          \E r \in RowsWithKey(key) : ~Blank(Field(r, col))

\* C5 (amended): a dataset has a row for exactly the non-blank key values
\* of the table; a key whose rows are all blank in the data column gets a
\* row with percentage 0.
C5_EveryKeyGetsRow ==
    \A col \in DOMAIN chart_data :
       /\ Keys(chart_data[col]) = { key \in KeyTexts : ~Blank(key) }
       /\ \A g \in DOMAIN chart_data[col].rows :
            (\A r \in RowsWithKey(chart_data[col].rows[g][1]) : Blank(Field(r, col)))
               => chart_data[col].rows[g][2] = Fin(0, 1)

\* a finished run with a key all of whose rows are blank in one data column
\* and not in another
C5_Witness ==
    /\ pc = "done"
    /\ \E col \in DOMAIN chart_data :
         \E key \in Keys(chart_data[col]) :
            /\ \A r \in RowsWithKey(key) : Blank(Field(r, col))
            /\ \E other \in HeaderCols \ {col, key_column} :
                 \E r \in RowsWithKey(key) : ~Blank(Field(r, other))

\* C6: a row counts as a pass iff its data cell is 'pass' in any letter
\* case; 'Fail', 'fail', '', 'N/A', ' pass ', 'passed' never do.
C6_PassToken ==
    i >= 1 =>
      \A g \in DOMAIN summary_df :
         summary_df[g].passes.num
           = Cardinality({ r \in RowsWithKey(summary_df[g].key) :
                             Field(r, LastCol) \in { s_pass, s_Pass, s_PASS } })

\* a group whose only pass is upper-case, and a group where ' pass ' is
\* counted in total and not in passes
C6_Witness ==
    /\ i >= 1
    /\ \E g \in DOMAIN summary_df :
         /\ summary_df[g].passes.num = 1
         /\ \A r \in RowsWithKey(summary_df[g].key) : Field(r, LastCol) = s_PASS
    /\ \E g \in DOMAIN summary_df :
         /\ \E r \in RowsWithKey(summary_df[g].key) : Field(r, LastCol) = s_sp_pass_sp
         /\ summary_df[g].passes.num < summary_df[g].total.num

\* the first of [key column, data columns as given] absent from the header
ExpectedMissing ==
    IF key_column \notin HeaderCols THEN key_column
    ELSE data_columns[CHOOSE n \in DOMAIN data_columns :
                         /\ data_columns[n] \notin HeaderCols
                         /\ \A m \in 1..(n - 1) : data_columns[m] \in HeaderCols]

\* C7: when the key column or a data column is absent from the header, the
\* run exits with code 1 before any aggregation and without writing the
\* output; the diagnostic names the first missing column and lists all
\* available columns.
C7_MissingColumn ==
    ( /\ fs_csv.status = "ok"
      /\ pc \notin { "read_csv", "validate" }
      /\ (key_column \notin HeaderCols \/ \E n \in DOMAIN data_columns :
                                             data_columns[n] \notin HeaderCols) )
    => /\ pc = "exit"
       /\ exit_code = 1
       /\ stderr = Diag("MissingColumn", ExpectedMissing, fs_csv.header)
       /\ i = 0
       /\ DOMAIN chart_data = {}
       /\ html_content = EmptyDoc
       /\ fs_output # "report"

\* key column and a different data column both missing: the key is named
C7_Witness ==
    /\ pc = "exit"
    /\ stderr.error = "MissingColumn"
    /\ key_column \notin HeaderCols
    /\ \E n \in DOMAIN data_columns :
         data_columns[n] \notin HeaderCols /\ data_columns[n] # key_column
    /\ stderr.column = key_column

\* C8: in every document written the drawing-function identifiers of the
\* data columns are pairwise distinct (colliding columns are rejected with
\* DuplicateChartIdentifier instead).
C8_DistinctIdentifiers ==
    fs_output = "report" =>
      \A m, n \in DOMAIN html_content.directives :
         m # n => html_content.directives[m].function # html_content.directives[n].function

C10_Containers ==
    html_content # EmptyDoc =>
      /\ Len(html_content.divs) = Len(data_columns)
      /\ Len(html_content.directives) = Len(data_columns)
      /\ \A m, n \in DOMAIN html_content.divs :
            m # n => html_content.divs[m] # html_content.divs[n]
      /\ \A n \in DOMAIN data_columns :
            /\ html_content.divs[n] = <<"chart_div_", n - 1>>
            /\ html_content.directives[n].element = html_content.divs[n]
            /\ html_content.directives[n].title = <<"Pass Percentage for ", data_columns[n]>>
            /\ html_content.directives[n].data
                 = DataList(key_column, Aggregate(df, key_column, data_columns[n]))

\* a written document for two columns that collide after normalisation
C10_Witness ==
    /\ fs_output = "report"
    /\ Len(data_columns) = 2
    /\ data_columns[1] # data_columns[2]
    /\ Replace(data_columns[1]) = Replace(data_columns[2])
    /\ html_content.directives[1].data # html_content.directives[2].data

====
